---- MODULE Spec2Model ----
(***************************************************************************)
(* A model of the lobster limit order book: the order arena                *)
(* (src/src/arena.rs) and the matching engine (src/src/orderbook.rs).      *)
(*                                                                         *)
(* Conventions.                                                            *)
(*  - Option<u64> is an integer: None is -1, Some(p) is p.                 *)
(*  - An arena handle is the Rust index plus one, so that the arena's      *)
(*    Vec<LimitOrder> is a TLA+ sequence.                                  *)
(*  - A BTreeMap<u64, Vec<usize>> is a function whose DOMAIN is the set of *)
(*    keys present; an emptied level stays in the DOMAIN with <<>>.        *)
(*  - The HashMap order_map is a function whose DOMAIN is the mapped ids.  *)
(***************************************************************************)
EXTENDS Integers, Sequences, FiniteSets, TLC

VARIABLES
    last_trade,     \* OrderBook.last_trade: NoTrade or a Trade record
    traded_volume,  \* OrderBook.traded_volume
    min_ask,        \* OrderBook.min_ask (None = -1)
    max_bid,        \* OrderBook.max_bid (None = -1)
    asks,           \* OrderBook.asks: price -> queue of handles
    bids,           \* OrderBook.bids: price -> queue of handles
    orders,         \* OrderArena.orders: sequence of [id, price, qty]
    free,           \* OrderArena.free: stack of handles, top = last
    order_map,      \* OrderArena.order_map: id -> handle
    track_stats,    \* OrderBook.track_stats
    cmd,            \* the command most recently given to execute()
    event,          \* the event most recently returned by execute()
    ncmds           \* the number of calls made on the book so far

vars == <<last_trade, traded_volume, min_ask, max_bid, asks, bids, orders,
          free, order_map, track_stats, cmd, event, ncmds>>

-----------------------------------------------------------------------------
(* Bounds of the model *)

\* prices of commands are 1..MaxPrice
MaxPrice == 2
\* quantities of commands are 1 and MaxQty
MaxQty == 2
\* order ids of Limit and Cancel commands are 1..MaxId
MaxId == 3
\* order ids of Market commands are 1..MaxMarketId
MaxMarketId == 1
\* the arena_capacity given to OrderBook::new
ArenaCapacity == 1
\* a run makes at most this many calls on the book
MaxCmds == 3
\* depth is asked for 0..MaxLevels levels
MaxLevels == 2

Prices == 1..MaxPrice
Qtys == {1, MaxQty}
Ids == 1..MaxId
MarketIds == 1..MaxMarketId
Sides == {"Bid", "Ask"}

None == -1
NoTrade == [set |-> FALSE]
NoCmd == [type |-> "None"]
NoEvent == [type |-> "None"]

-----------------------------------------------------------------------------
(* Helpers over sets and sequences *)

SetMin(S) == CHOOSE x \in S : \A y \in S : x <= y
SetMax(S) == CHOOSE x \in S : \A y \in S : x >= y

\* Vec::swap_remove(i): the last element takes the place of the i-th
RemoveAtSwap(q, i) ==
    [k \in 1..(Len(q) - 1) |-> IF k = i THEN q[Len(q)] ELSE q[k]]

\* Vec::remove(i): the sequence without its i-th element
RemoveAt(q, i) == [k \in 1..(Len(q) - 1) |-> IF k < i THEN q[k] ELSE q[k + 1]]

\* Iterator::position: first index holding h, 0 when there is none
Position(q, h) ==
    IF \E k \in 1..Len(q) : q[k] = h
    THEN SetMin({k \in 1..Len(q) : q[k] = h})
    ELSE 0

\* the handle inserted at the front of the queue at price
EntryPushFront(book, price, h) ==
    IF price \in DOMAIN book
    THEN [book EXCEPT ![price] = <<h>> \o @]
    ELSE [p \in (DOMAIN book) \cup {price} |->
            IF p = price THEN <<h>> ELSE book[p]]

\* BTreeMap entry(price).or_insert_with(Vec::new).push(h)
EntryPush(book, price, h) ==
    IF price \in DOMAIN book
    THEN [book EXCEPT ![price] = Append(@, h)]
    ELSE [p \in (DOMAIN book) \cup {price} |->
            IF p = price THEN <<h>> ELSE book[p]]

-----------------------------------------------------------------------------
(* OrderArena.  An arena a is the record [orders, free, order_map]. *)

\* OrderArena::new(capacity): `capacity` zeroed slots, all on the free list
ArenaNewOrders(capacity) == [i \in 1..capacity |-> [id |-> 0, price |-> 0, qty |-> 0]]
\* OrderArena::new pushing every slot on the free list twice
ArenaNewFreeTwice(capacity) ==
    [i \in 1..(2 * capacity) |-> ((i - 1) % capacity) + 1]

\* OrderArena::new(capacity): the free list
ArenaNewFree(capacity) == [i \in 1..capacity |-> i]

\* OrderArena::get(id) falling back on the first slot for an unmapped id
ArenaGetOrFirstSlot(a, id) ==
    IF id \in DOMAIN a.order_map
    THEN [some |-> TRUE, price |-> a.orders[a.order_map[id]].price,
          index |-> a.order_map[id]]
    ELSE IF Len(a.orders) > 0
         THEN [some |-> TRUE, price |-> a.orders[1].price, index |-> 1]
         ELSE [some |-> FALSE]

\* OrderArena::get(id): Some((price, index)) or None, as [some, price, index]
ArenaGet(a, id) ==
    IF id \in DOMAIN a.order_map
    THEN [some |-> TRUE, price |-> a.orders[a.order_map[id]].price,
          index |-> a.order_map[id]]
    ELSE [some |-> FALSE]

\* HashMap::insert(id, index)
MapInsert(m, id, index) ==
    [k \in (DOMAIN m) \cup {id} |-> IF k = id THEN index ELSE m[k]]

\* HashMap::remove(id)
MapRemove(m, id) == [k \in (DOMAIN m) \ {id} |-> m[k]]

\* OrderArena::insert leaving the id of a slot it pops from the free list
ArenaInsertPoppedKeepsId(a, id, price, qty) ==
    IF a.free = <<>>
    THEN [arena |-> [orders |-> Append(a.orders,
                                       [id |-> id, price |-> price, qty |-> qty]),
                     free |-> a.free,
                     order_map |-> MapInsert(a.order_map, id, Len(a.orders) + 1)],
          index |-> Len(a.orders) + 1]
    ELSE [arena |-> [orders |-> [a.orders EXCEPT ![a.free[Len(a.free)]] =
                                    [id |-> @.id, price |-> price, qty |-> qty]],
                     free |-> SubSeq(a.free, 1, Len(a.free) - 1),
                     order_map |-> MapInsert(a.order_map, id, a.free[Len(a.free)])],
          index |-> a.free[Len(a.free)]]

\* OrderArena::insert writing qty and price exchanged in a slot it appends
ArenaInsertSwapsAppended(a, id, price, qty) ==
    IF a.free = <<>>
    THEN [arena |-> [orders |-> Append(a.orders,
                                       [id |-> id, price |-> qty, qty |-> price]),
                     free |-> a.free,
                     order_map |-> MapInsert(a.order_map, id, Len(a.orders) + 1)],
          index |-> Len(a.orders) + 1]
    ELSE [arena |-> [orders |-> [a.orders EXCEPT ![a.free[Len(a.free)]] =
                                    [id |-> id, price |-> price, qty |-> qty]],
                     free |-> SubSeq(a.free, 1, Len(a.free) - 1),
                     order_map |-> MapInsert(a.order_map, id, a.free[Len(a.free)])],
          index |-> a.free[Len(a.free)]]

\* OrderArena::insert(id, price, qty): the arena afterwards and the handle
ArenaInsert(a, id, price, qty) ==
    IF a.free = <<>>
    THEN [arena |-> [orders |-> Append(a.orders,
                                       [id |-> id, price |-> price, qty |-> qty]),
                     free |-> a.free,
                     order_map |-> MapInsert(a.order_map, id, Len(a.orders) + 1)],
          index |-> Len(a.orders) + 1]
    ELSE [arena |-> [orders |-> [a.orders EXCEPT ![a.free[Len(a.free)]] =
                                    [id |-> id, price |-> price, qty |-> qty]],
                     free |-> SubSeq(a.free, 1, Len(a.free) - 1),
                     order_map |-> MapInsert(a.order_map, id, a.free[Len(a.free)])],
          index |-> a.free[Len(a.free)]]

\* OrderArena::delete(id) reading the mapping without removing it
ArenaDeleteKeepsMapping(a, id) ==
    IF id \in DOMAIN a.order_map
    THEN IF a.order_map[id] \in 1..Len(a.orders)
         THEN [orders |-> [a.orders EXCEPT ![a.order_map[id]].qty = 0],
               free |-> Append(a.free, a.order_map[id]),
               order_map |-> a.order_map]
         ELSE a
    ELSE a

\* OrderArena::delete(id): the arena afterwards
ArenaDelete(a, id) ==
    IF id \in DOMAIN a.order_map
    THEN IF a.order_map[id] \in 1..Len(a.orders)
         THEN [orders |-> [a.orders EXCEPT ![a.order_map[id]].qty = 0],
               free |-> Append(a.free, a.order_map[id]),
               order_map |-> MapRemove(a.order_map, id)]
         ELSE [a EXCEPT !.order_map = MapRemove(a.order_map, id)]
    ELSE a

-----------------------------------------------------------------------------
(* OrderBook: queue processing.  The state st of process_queue's loop is   *)
(* [orders, qty_to_fill, filled_qty, filled_index, fills]; filled_index is *)
(* the 1-based position, 0 for None.                                       *)

\* the FillMetadata with the taker and the maker exchanged
MakeFillSwapped(id, head_order, traded_quantity, side, filled) ==
    [order_1 |-> head_order.id,
     order_2 |-> id,
     qty |-> traded_quantity,
     price |-> head_order.price,
     taker_side |-> side,
     total_fill |-> filled]

\* the FillMetadata pushed by process_queue for one maker
MakeFill(id, head_order, traded_quantity, side, filled) ==
    [order_1 |-> id,
     order_2 |-> head_order.id,
     qty |-> traded_quantity,
     price |-> head_order.price,
     taker_side |-> side,
     total_fill |-> filled]

\* process_queue never taking a maker as filled
TradeNeverTotal(st, index, h, id, side, filled, traded_quantity) ==
    [orders |-> [st.orders EXCEPT ![h].qty = @ - traded_quantity],
     qty_to_fill |-> st.qty_to_fill - traded_quantity,
     filled_qty |-> st.filled_qty + traded_quantity,
     filled_index |-> st.filled_index,
     fills |-> Append(st.fills,
                      MakeFill(id, st.orders[h], traded_quantity, side, FALSE))]

\* process_queue adding the maker's whole quantity to filled_qty
TradeCountsAvailable(st, index, h, id, side, filled, traded_quantity) ==
    [orders |-> [st.orders EXCEPT ![h].qty = @ - traded_quantity],
     qty_to_fill |-> st.qty_to_fill - traded_quantity,
     filled_qty |-> st.filled_qty + st.orders[h].qty,
     filled_index |-> IF filled THEN index ELSE st.filled_index,
     fills |-> Append(st.fills,
                      MakeFill(id, st.orders[h], traded_quantity, side, filled))]

\* process_queue: the loop's state after a trade of traded_quantity with the
\* maker at position index, whose handle is h
Trade(st, index, h, id, side, filled, traded_quantity) ==
    [orders |-> [st.orders EXCEPT ![h].qty = @ - traded_quantity],
     qty_to_fill |-> st.qty_to_fill - traded_quantity,
     filled_qty |-> st.filled_qty + traded_quantity,
     filled_index |-> IF filled THEN index ELSE st.filled_index,
     fills |-> Append(st.fills,
                      MakeFill(id, st.orders[h], traded_quantity, side, filled))]

\* process_queue taking the whole of every maker it meets
FillHeadWholeMaker(st, index, h, id, side) ==
    Trade(st, index, h, id, side, TRUE, st.orders[h].qty)

\* process_queue: one iteration of the loop for a maker that has quantity
FillHead(st, index, h, id, side) ==
    IF st.qty_to_fill >= st.orders[h].qty
    THEN Trade(st, index, h, id, side, TRUE, st.orders[h].qty)
    ELSE Trade(st, index, h, id, side, FALSE, st.qty_to_fill)

\* process_queue: the loop over opposite_orders, from position index on
RECURSIVE PQLoop(_, _, _, _, _)
PQLoop(queue, index, st, id, side) ==
    IF index > Len(queue) THEN st
    ELSE IF st.qty_to_fill = 0 THEN st
    ELSE IF st.orders[queue[index]].qty = 0
         THEN PQLoop(queue, index + 1, [st EXCEPT !.filled_index = index], id, side)
         ELSE PQLoop(queue, index + 1, FillHead(st, index, queue[index], id, side),
                     id, side)

\* opposite_orders.drain(0..index): the last filled maker is left behind
DrainExclusive(queue, filled_index) ==
    IF filled_index # 0
    THEN SubSeq(queue, filled_index, Len(queue))
    ELSE queue

\* opposite_orders.drain(0..index + 1) when filled_index is Some(index)
Drain(queue, filled_index) ==
    IF filled_index # 0
    THEN SubSeq(queue, filled_index + 1, Len(queue))
    ELSE queue

\* process_queue: what the loop leaves: the arena's orders, the drained queue,
\* the fills and filled_qty
PQResult(queue, st) ==
    [orders |-> st.orders,
     queue |-> Drain(queue, st.filled_index),
     fills |-> st.fills,
     filled_qty |-> st.filled_qty]

\* process_queue(arena, opposite_orders, remaining_qty, id, side, fills)
ProcessQueue(ords, queue, remaining_qty, id, side, fills) ==
    PQResult(queue,
             PQLoop(queue, 1,
                    [orders |-> ords, qty_to_fill |-> remaining_qty,
                     filled_qty |-> 0, filled_index |-> 0, fills |-> fills],
                    id, side))

-----------------------------------------------------------------------------
(* OrderBook: top-of-book trackers *)

\* update_min_ask without its filter on empty queues
UpdateMinAskAnyLevel(a) ==
    IF DOMAIN a = {} THEN None ELSE SetMin(DOMAIN a)

\* update_min_ask: the lowest price with a non-empty queue, or None
UpdateMinAsk(a) ==
    IF \A p \in DOMAIN a : a[p] = <<>>
    THEN None
    ELSE SetMin({p \in DOMAIN a : a[p] # <<>>})

\* update_max_bid: the highest price with a non-empty queue, or None
UpdateMaxBid(b) ==
    IF \A p \in DOMAIN b : b[p] = <<>>
    THEN None
    ELSE SetMax({p \in DOMAIN b : b[p] # <<>>})

-----------------------------------------------------------------------------
(* OrderBook: matching.  The state s of the walk over one side is          *)
(* [orders, book, tracker, remaining_qty, update_bid_ask, fills], book     *)
(* being the side walked and tracker its min_ask or max_bid.               *)

\* match_with_asks ending the walk at an ask equal to the limit price
AskBeyondLimitExclusive(limit_price, ask_price) ==
    limit_price # None /\ limit_price <= ask_price

\* match_with_asks: the limit-price test that ends the walk
AskBeyondLimit(limit_price, ask_price) ==
    limit_price # None /\ limit_price < ask_price

\* match_with_bids ending the walk at the limit price itself
BidBeyondLimitExclusive(limit_price, bid_price) ==
    limit_price # None /\ limit_price >= bid_price

\* match_with_bids: the limit-price test that ends the walk
BidBeyondLimit(limit_price, bid_price) ==
    limit_price # None /\ limit_price > bid_price

\* match_with_*: the tracker set to the price of a non-empty queue reached
\* with update_bid_ask set or with no tracker
Track(s, price) ==
    IF s.update_bid_ask \/ s.tracker = None
    THEN [s EXCEPT !.tracker = price, !.update_bid_ask = FALSE]
    ELSE s

\* match_with_*: the walk's state after process_queue returned r for the
\* queue at price
AfterQueue(s, price, r) ==
    [orders |-> r.orders,
     book |-> [s.book EXCEPT ![price] = r.queue],
     tracker |-> s.tracker,
     remaining_qty |-> s.remaining_qty - r.filled_qty,
     update_bid_ask |-> IF r.queue = <<>> THEN TRUE ELSE s.update_bid_ask,
     fills |-> r.fills]

RECURSIVE MatchAsksLoop(_, _, _, _, _)

\* match_with_asks: the loop's body for a non-empty queue, s being the state
\* after the tracker's update; keys are the prices not yet visited
MatchAsksQueue(ask_price, keys, s, id, limit_price, side) ==
    IF AskBeyondLimit(limit_price, ask_price) THEN s
    ELSE IF s.remaining_qty = 0 THEN s
    ELSE MatchAsksLoop(keys \ {ask_price},
                       AfterQueue(s, ask_price,
                                  ProcessQueue(s.orders, s.book[ask_price],
                                               s.remaining_qty, id, side, s.fills)),
                       id, limit_price, side)

\* match_with_asks: the loop's body for the entry at ask_price
MatchAsksAt(ask_price, keys, s, id, limit_price, side) ==
    IF s.book[ask_price] = <<>>
    THEN MatchAsksLoop(keys \ {ask_price}, s, id, limit_price, side)
    ELSE MatchAsksQueue(ask_price, keys, Track(s, ask_price), id, limit_price, side)

\* match_with_asks walking the asks highest price first
MatchAsksLoopWorstFirst(keys, s, id, limit_price, side) ==
    IF keys = {} THEN s
    ELSE MatchAsksAt(SetMax(keys), keys, s, id, limit_price, side)

\* match_with_asks: the loop over self.asks.iter_mut(), lowest price first
MatchAsksLoop(keys, s, id, limit_price, side) ==
    IF keys = {} THEN s
    ELSE MatchAsksAt(SetMin(keys), keys, s, id, limit_price, side)

\* match_with_asks: update_min_ask and the value returned
AsksResult(s) ==
    [orders |-> s.orders, asks |-> s.book, min_ask |-> UpdateMinAsk(s.book),
     fills |-> s.fills, remaining_qty |-> s.remaining_qty]

\* match_with_asks(id, qty, fills, limit_price)
MatchWithAsks(ords, a, tracker, id, qty, fills, limit_price) ==
    AsksResult(MatchAsksLoop(DOMAIN a,
                             [orders |-> ords, book |-> a, tracker |-> tracker,
                              remaining_qty |-> qty, update_bid_ask |-> FALSE,
                              fills |-> fills],
                             id, limit_price, "Bid"))

RECURSIVE MatchBidsLoop(_, _, _, _, _)

\* match_with_bids: the loop's body for a non-empty queue
MatchBidsQueue(bid_price, keys, s, id, limit_price, side) ==
    IF BidBeyondLimit(limit_price, bid_price) THEN s
    ELSE IF s.remaining_qty = 0 THEN s
    ELSE MatchBidsLoop(keys \ {bid_price},
                       AfterQueue(s, bid_price,
                                  ProcessQueue(s.orders, s.book[bid_price],
                                               s.remaining_qty, id, side, s.fills)),
                       id, limit_price, side)

\* match_with_bids: the loop's body for the entry at bid_price
MatchBidsAt(bid_price, keys, s, id, limit_price, side) ==
    IF s.book[bid_price] = <<>>
    THEN MatchBidsLoop(keys \ {bid_price}, s, id, limit_price, side)
    ELSE MatchBidsQueue(bid_price, keys, Track(s, bid_price), id, limit_price, side)

\* match_with_bids: the loop over self.bids.iter_mut().rev(), highest price
\* first
MatchBidsLoop(keys, s, id, limit_price, side) ==
    IF keys = {} THEN s
    ELSE MatchBidsAt(SetMax(keys), keys, s, id, limit_price, side)

\* match_with_bids: update_max_bid and the value returned
BidsResult(s) ==
    [orders |-> s.orders, bids |-> s.book, max_bid |-> UpdateMaxBid(s.book),
     fills |-> s.fills, remaining_qty |-> s.remaining_qty]

\* match_with_bids(id, qty, fills, limit_price)
MatchWithBids(ords, b, tracker, id, qty, fills, limit_price) ==
    BidsResult(MatchBidsLoop(DOMAIN b,
                             [orders |-> ords, book |-> b, tracker |-> tracker,
                              remaining_qty |-> qty, update_bid_ask |-> FALSE,
                              fills |-> fills],
                             id, limit_price, "Ask"))

-----------------------------------------------------------------------------
(* OrderBook: the three commands.  A book B is the record                  *)
(* [orders, free, order_map, asks, bids, min_ask, max_bid].                *)

ArenaOf(B) == [orders |-> B.orders, free |-> B.free, order_map |-> B.order_map]

WithArena(B, a) ==
    [B EXCEPT !.orders = a.orders, !.free = a.free, !.order_map = a.order_map]

\* the book after match_with_asks returned m
AfterAsks(B, m) ==
    [B EXCEPT !.orders = m.orders, !.asks = m.asks, !.min_ask = m.min_ask]

\* the book after match_with_bids, the quantities of the makers not written
AfterBidsKeepsQuantities(B, m) ==
    [B EXCEPT !.bids = m.bids, !.max_bid = m.max_bid]

\* the book after match_with_bids returned m
AfterBids(B, m) ==
    [B EXCEPT !.orders = m.orders, !.bids = m.bids, !.max_bid = m.max_bid]

\* market, limit returning qty instead of qty - remaining_qty
OutcomeWholeQty(B, m, qty) ==
    [book |-> B,
     fills |-> m.fills,
     partial |-> m.remaining_qty > 0,
     filled_qty |-> qty]

\* market, limit: the value returned, (fills, partial, qty - remaining_qty),
\* with the book the call leaves
Outcome(B, m, qty) ==
    [book |-> B,
     fills |-> m.fills,
     partial |-> m.remaining_qty > 0,
     filled_qty |-> qty - m.remaining_qty]

\* limit, Side::Bid: the handle ins.index is pushed on the queue at price and
\* max_bid raised
PushBid(B, price, ins) ==
    [WithArena(B, ins.arena) EXCEPT
        !.bids = EntryPush(B.bids, price, ins.index),
        !.max_bid = IF B.max_bid = None \/ price > B.max_bid
                    THEN price ELSE B.max_bid]

\* limit, Side::Bid, handing price and quantity to the arena exchanged
RestBidSwapsPriceQty(B, id, price, remaining_qty) ==
    PushBid(B, price, ArenaInsert(ArenaOf(B), id, remaining_qty, price))

\* limit, Side::Bid, remaining_qty > 0: the residue rests on the bids
RestBid(B, id, price, remaining_qty) ==
    PushBid(B, price, ArenaInsert(ArenaOf(B), id, price, remaining_qty))

\* limit, Side::Ask: min_ask lowered, before and after the push
LowerMinAsk(tracker, price) ==
    IF tracker = None \/ price < tracker THEN price ELSE tracker

\* limit, Side::Ask: the handle ins.index is pushed on the queue at price
PushAsk(B, price, ins) ==
    [WithArena(B, ins.arena) EXCEPT
        !.asks = EntryPush(B.asks, price, ins.index),
        !.min_ask = LowerMinAsk(IF B.min_ask # None /\ price < B.min_ask
                                THEN price ELSE B.min_ask,
                                price)]

\* limit, Side::Ask, pushing the residue on the bids
RestAskAmongBids(B, id, price, remaining_qty) ==
    PushBid(B, price, ArenaInsert(ArenaOf(B), id, price, remaining_qty))

\* limit, Side::Ask, remaining_qty > 0: the residue rests on the asks
RestAsk(B, id, price, remaining_qty) ==
    PushAsk(B, price, ArenaInsert(ArenaOf(B), id, price, remaining_qty))

\* limit, Side::Bid, resting the original qty
LimitBidRestsWholeQty(B, id, qty, price, m) ==
    Outcome(IF m.remaining_qty > 0
            THEN RestBid(AfterAsks(B, m), id, price, qty)
            ELSE AfterAsks(B, m),
            m, qty)

\* limit, Side::Bid, after match_with_asks returned m
LimitBid(B, id, qty, price, m) ==
    Outcome(IF m.remaining_qty > 0
            THEN RestBid(AfterAsks(B, m), id, price, m.remaining_qty)
            ELSE AfterAsks(B, m),
            m, qty)

\* limit, Side::Ask, resting the residue also when nothing remains
LimitAskRestsNothing(B, id, qty, price, m) ==
    Outcome(IF m.remaining_qty >= 0
            THEN RestAsk(AfterBids(B, m), id, price, m.remaining_qty)
            ELSE AfterBids(B, m),
            m, qty)

\* limit, Side::Ask, after match_with_bids returned m
LimitAsk(B, id, qty, price, m) ==
    Outcome(IF m.remaining_qty > 0
            THEN RestAsk(AfterBids(B, m), id, price, m.remaining_qty)
            ELSE AfterBids(B, m),
            m, qty)

\* limit(id, side, qty, price)
Limit(B, id, side, qty, price) ==
    IF side = "Bid"
    THEN LimitBid(B, id, qty, price,
                  MatchWithAsks(B.orders, B.asks, B.min_ask, id, qty, <<>>, price))
    ELSE LimitAsk(B, id, qty, price,
                  MatchWithBids(B.orders, B.bids, B.max_bid, id, qty, <<>>, price))

\* market, Side::Bid, after match_with_asks returned m
MarketBid(B, qty, m) == Outcome(AfterAsks(B, m), m, qty)

\* market, Side::Ask, after match_with_bids returned m
MarketAsk(B, qty, m) == Outcome(AfterBids(B, m), m, qty)

\* market resting its remainder like a limit at the most generous price
MarketAsLimit(B, id, side, qty) ==
    Limit(B, id, side, qty, IF side = "Bid" THEN MaxPrice ELSE 1)

\* market(id, side, qty)
Market(B, id, side, qty) ==
    IF side = "Bid"
    THEN MarketBid(B, qty,
                   MatchWithAsks(B.orders, B.asks, B.min_ask, id, qty, <<>>, None))
    ELSE MarketAsk(B, qty,
                   MatchWithBids(B.orders, B.bids, B.max_bid, id, qty, <<>>, None))

\* cancel: queue.remove(i) when position() finds the handle
RemoveHandle(queue, idx) ==
    IF Position(queue, idx) # 0 THEN RemoveAt(queue, Position(queue, idx)) ELSE queue

\* cancel: the asks queue is a, then update_min_ask
SetAsks(B, a) == [B EXCEPT !.asks = a, !.min_ask = UpdateMinAsk(a)]

\* cancel: the bids queue is b, then update_max_bid
SetBids(B, b) == [B EXCEPT !.bids = b, !.max_bid = UpdateMaxBid(b)]

\* cancel erasing the asks level that the removal empties
CancelAsksErasesEmptied(B, price, idx) ==
    IF price \in DOMAIN B.asks
    THEN IF RemoveHandle(B.asks[price], idx) = <<>>
         THEN SetAsks(B, [p \in DOMAIN B.asks \ {price} |-> B.asks[p]])
         ELSE SetAsks(B, [B.asks EXCEPT ![price] = RemoveHandle(@, idx)])
    ELSE B

\* cancel: the asks queue at price, when there is one
CancelAsks(B, price, idx) ==
    IF price \in DOMAIN B.asks
    THEN SetAsks(B, [B.asks EXCEPT ![price] = RemoveHandle(@, idx)])
    ELSE B

\* cancel leaving the handle in the bids queue
CancelBidsKeepsHandle(B, price, idx) ==
    IF price \in DOMAIN B.bids
    THEN SetBids(B, B.bids)
    ELSE B

\* cancel: the bids queue at price, when there is one
CancelBids(B, price, idx) ==
    IF price \in DOMAIN B.bids
    THEN SetBids(B, [B.bids EXCEPT ![price] = RemoveHandle(@, idx)])
    ELSE B

\* cancel looking for the handle among the asks only
CancelFoundAsksOnly(B, got) ==
    IF got.some
    THEN CancelAsks(B, got.price, got.index)
    ELSE B

\* cancel: what is done when arena.get(id) is Some((price, idx))
CancelFound(B, got) ==
    IF got.some
    THEN CancelBids(CancelAsks(B, got.price, got.index), got.price, got.index)
    ELSE B

\* cancel: self.arena.delete(&id)
CancelDelete(B, id) == WithArena(B, ArenaDelete(ArenaOf(B), id))

\* cancel(id): the book afterwards
Cancel(B, id) == CancelDelete(CancelFound(B, ArenaGet(ArenaOf(B), id)), id)

\* _execute ignoring the partial flag of a Market command
MarketEventIgnoresPartial(id, r) ==
    IF r.fills = <<>> THEN [type |-> "Unfilled", id |-> id]
    ELSE [type |-> "Filled", id |-> id,
          filled_qty |-> r.filled_qty, fills |-> r.fills]

\* _execute: the event made of a Market command's (fills, partial, filled_qty)
MarketEvent(id, r) ==
    IF r.fills = <<>> THEN [type |-> "Unfilled", id |-> id]
    ELSE IF r.partial
         THEN [type |-> "PartiallyFilled", id |-> id,
               filled_qty |-> r.filled_qty, fills |-> r.fills]
         ELSE [type |-> "Filled", id |-> id,
               filled_qty |-> r.filled_qty, fills |-> r.fills]

\* _execute: the event made of a Limit command's (fills, partial, filled_qty)
LimitEvent(id, r) ==
    IF r.fills = <<>> THEN [type |-> "Placed", id |-> id]
    ELSE IF r.partial
         THEN [type |-> "PartiallyFilled", id |-> id,
               filled_qty |-> r.filled_qty, fills |-> r.fills]
         ELSE [type |-> "Filled", id |-> id,
               filled_qty |-> r.filled_qty, fills |-> r.fills]

-----------------------------------------------------------------------------
(* OrderBook::execute: the statistics *)

RECURSIVE Gcd(_, _)
Gcd(a, b) == IF b = 0 THEN a ELSE Gcd(b, a % b)

RECURSIVE SumPriceQty(_)
\* fills.iter().map(|fm| fm.price * fm.qty).sum::<u64>()
SumPriceQty(fills) ==
    IF fills = <<>> THEN 0
    ELSE fills[1].price * fills[1].qty + SumPriceQty(Tail(fills))

\* the Trade with last_qty and last_price read from fills.first()
TradeOfFirstFill(filled_qty, fills) ==
    [set |-> TRUE,
     total_qty |-> filled_qty,
     avg_num |-> SumPriceQty(fills) \div Gcd(SumPriceQty(fills), filled_qty),
     avg_den |-> filled_qty \div Gcd(SumPriceQty(fills), filled_qty),
     last_qty |-> fills[1].qty,
     last_price |-> fills[1].price]

\* the Trade recorded for a Filled or PartiallyFilled event; avg_price, the
\* quotient of two floats, is kept as the fraction avg_num / avg_den in
\* lowest terms
TradeOf(filled_qty, fills) ==
    [set |-> TRUE,
     total_qty |-> filled_qty,
     avg_num |-> SumPriceQty(fills) \div Gcd(SumPriceQty(fills), filled_qty),
     avg_den |-> filled_qty \div Gcd(SumPriceQty(fills), filled_qty),
     last_qty |-> fills[Len(fills)].qty,
     last_price |-> fills[Len(fills)].price]

IsFill(e) == e.type \in {"Filled", "PartiallyFilled"}

\* execute recording the statistics whatever track_stats is
StatsAlways(e) ==
    IF IsFill(e)
    THEN /\ traded_volume' = traded_volume + e.filled_qty
         /\ last_trade' = TradeOf(e.filled_qty, e.fills)
    ELSE UNCHANGED <<traded_volume, last_trade>>

\* execute assigning filled_qty to traded_volume instead of adding it
StatsAssignsVolume(e) ==
    IF track_stats /\ IsFill(e)
    THEN /\ traded_volume' = e.filled_qty
         /\ last_trade' = TradeOf(e.filled_qty, e.fills)
    ELSE UNCHANGED <<traded_volume, last_trade>>

\* execute: what follows the call of _execute
Stats(e) ==
    IF track_stats /\ IsFill(e)
    THEN /\ traded_volume' = traded_volume + e.filled_qty
         /\ last_trade' = TradeOf(e.filled_qty, e.fills)
    ELSE UNCHANGED <<traded_volume, last_trade>>

-----------------------------------------------------------------------------
(* OrderBook: the queries spread() and depth(levels), as functions of the  *)
(* book B they are asked of                                                *)

\* the result of a u64 subtraction that underflows: a panic in a debug build,
\* a wrapped value in a release build
Underflow == -2

\* a - b on u64
SubU64(a, b) == IF a >= b THEN a - b ELSE Underflow

\* spread() with the operands exchanged
SpreadBidMinusAsk(B) ==
    IF B.max_bid # None /\ B.min_ask # None
    THEN SubU64(B.max_bid, B.min_ask)
    ELSE None

\* spread(): Some(a - b) when max_bid is Some(b) and min_ask is Some(a)
Spread(B) ==
    IF B.max_bid # None /\ B.min_ask # None
    THEN SubU64(B.min_ask, B.max_bid)
    ELSE None

\* depth counting the orders of a queue instead of adding their quantities
LevelQtyCountsOrders(ords, queue) == Len(queue)

\* depth: qty += self.arena[*idx].qty for idx in queue
RECURSIVE LevelQty(_, _)
LevelQty(ords, queue) ==
    IF queue = <<>> THEN 0
    ELSE ords[Head(queue)].qty + LevelQty(ords, Tail(queue))

\* depth pushing a BookLevel for every key of the map
DepthLevelOfEveryKey(ords, book, price) ==
    <<[price |-> price, qty |-> LevelQty(ords, book[price])]>>

\* depth: the BookLevel pushed for a price, none when its qty is 0
DepthLevel(ords, book, price) ==
    IF LevelQty(ords, book[price]) > 0
    THEN <<[price |-> price, qty |-> LevelQty(ords, book[price])]>>
    ELSE <<>>

\* depth: the loop over self.asks.iter(), and the loop over self.bids.iter():
\* both walk the map from its lowest key up
RECURSIVE DepthSide(_, _, _)
DepthSide(ords, book, keys) ==
    IF keys = {} THEN <<>>
    ELSE DepthLevel(ords, book, SetMin(keys))
         \o DepthSide(ords, book, keys \ {SetMin(keys)})

\* depth(levels)
Depth(B, levels) ==
    [levels |-> levels,
     asks |-> DepthSide(B.orders, B.asks, DOMAIN B.asks),
     bids |-> DepthSide(B.orders, B.bids, DOMAIN B.bids)]

-----------------------------------------------------------------------------
(* The state machine *)

Book == [orders |-> orders, free |-> free, order_map |-> order_map,
         asks |-> asks, bids |-> bids, min_ask |-> min_ask, max_bid |-> max_bid]

SetBook(B) ==
    /\ orders' = B.orders
    /\ free' = B.free
    /\ order_map' = B.order_map
    /\ asks' = B.asks
    /\ bids' = B.bids
    /\ min_ask' = B.min_ask
    /\ max_bid' = B.max_bid

\* execute: the book that _execute leaves, the event returned, the statistics
Return(B, e) ==
    /\ SetBook(B)
    /\ event' = e
    /\ Stats(e)

\* the handles held in the queues of a side
HandlesOf(book) ==
    UNION {{book[p][k] : k \in 1..Len(book[p])} : p \in DOMAIN book}

\* the handles of the live resting orders of a side
LiveHandles(book, ords) == {h \in HandlesOf(book) : ords[h].qty > 0}

\* the ids of the live resting orders
LiveIds == {orders[h].id : h \in LiveHandles(asks, orders) \cup LiveHandles(bids, orders)}

\* OrderBook::new(arena_capacity, queue_capacity, track_stats)
New(arena_capacity, track) ==
    /\ orders = ArenaNewOrders(arena_capacity)
    /\ free = ArenaNewFree(arena_capacity)
    /\ order_map = <<>>
    /\ asks = <<>>
    /\ bids = <<>>
    /\ min_ask = None
    /\ max_bid = None
    /\ last_trade = NoTrade
    /\ traded_volume = 0
    /\ track_stats = track
    /\ cmd = NoCmd
    /\ event = NoEvent
    /\ ncmds = 0

\* a book with stats tracking disabled, as OrderBook::default() makes it
Init == New(ArenaCapacity, FALSE)

\* _execute, OrderType::Market
ReturnMarket(id, r) == Return(r.book, MarketEvent(id, r))

\* _execute, OrderType::Limit
ReturnLimit(id, r) == Return(r.book, LimitEvent(id, r))

\* execute(OrderType::Market {id, side, qty})
ExecMarket(id, side, qty) ==
    /\ ncmds < MaxCmds
    /\ ncmds' = ncmds + 1
    /\ ReturnMarket(id, Market(Book, id, side, qty))
    /\ cmd' = [type |-> "Market", id |-> id, side |-> side, qty |-> qty]
    /\ UNCHANGED track_stats

\* execute(OrderType::Limit {id, side, qty, price})
ExecLimit(id, side, qty, price) ==
    /\ ncmds < MaxCmds
    /\ ncmds' = ncmds + 1
    /\ ReturnLimit(id, Limit(Book, id, side, qty, price))
    /\ cmd' = [type |-> "Limit", id |-> id, side |-> side, qty |-> qty,
               price |-> price]
    /\ UNCHANGED track_stats

\* execute(OrderType::Cancel {id})
ExecCancel(id) ==
    /\ ncmds < MaxCmds
    /\ ncmds' = ncmds + 1
    /\ Return(Cancel(Book, id), [type |-> "Canceled", id |-> id])
    /\ cmd' = [type |-> "Cancel", id |-> id]
    /\ UNCHANGED track_stats

\* track_stats(track) clearing the accumulators
TrackStatsClears(track) ==
    /\ ncmds < MaxCmds
    /\ ncmds' = ncmds + 1
    /\ track_stats' = track
    /\ cmd' = [type |-> "TrackStats", track |-> track]
    /\ event' = NoEvent
    /\ traded_volume' = 0
    /\ last_trade' = NoTrade
    /\ UNCHANGED <<min_ask, max_bid, asks, bids, orders, free, order_map>>

\* track_stats(track); the call is recorded in cmd, and it returns no event
TrackStats(track) ==
    /\ ncmds < MaxCmds
    /\ ncmds' = ncmds + 1
    /\ track_stats' = track
    /\ cmd' = [type |-> "TrackStats", track |-> track]
    /\ event' = NoEvent
    /\ UNCHANGED <<last_trade, traded_volume, min_ask, max_bid, asks, bids,
                   orders, free, order_map>>

\* the valid commands: qty >= 1 and a Limit's id is not that of a live
\* resting order
MarketStep == \E id \in MarketIds, side \in Sides, qty \in Qtys : ExecMarket(id, side, qty)
LimitStep ==
    \E id \in Ids \ LiveIds, side \in Sides, qty \in Qtys, price \in Prices :
        ExecLimit(id, side, qty, price)
CancelStep == \E id \in Ids : ExecCancel(id)

Next == MarketStep \/ LimitStep \/ CancelStep

Spec == Init /\ [][Next]_vars

\* a book constructed with stats tracking enabled, never switched off
InitTracking == New(ArenaCapacity, TRUE)

SpecTracking == InitTracking /\ [][Next]_vars

\* a book constructed with either setting, and track_stats called at any time
InitToggle == \E track \in BOOLEAN : New(ArenaCapacity, track)

TrackStatsStep == \E track \in BOOLEAN : TrackStats(track)

NextToggle == MarketStep \/ LimitStep \/ CancelStep \/ TrackStatsStep

SpecToggle == InitToggle /\ [][NextToggle]_vars

\* any command the types allow: qty may be 0, and a Limit may carry the id of
\* a live resting order
AnyQtys == {0} \cup Qtys

MarketAnyStep ==
    \E id \in MarketIds, side \in Sides, qty \in AnyQtys : ExecMarket(id, side, qty)
LimitAnyStep ==
    \E id \in Ids, side \in Sides, qty \in AnyQtys, price \in Prices :
        ExecLimit(id, side, qty, price)

NextAny == MarketAnyStep \/ LimitAnyStep \/ CancelStep

\* any command, on a book that tracks stats
SpecAny == InitTracking /\ [][NextAny]_vars

\* a book that tracks stats, constructed with any arena capacity from 0 (every
\* insert appends) to one above ArenaCapacity (two slots at least, so that the
\* free list hands them out last first); queue_capacity is only the
\* allocation hint of Vec::with_capacity
InitCapacity == \E capacity \in 0..(ArenaCapacity + 1) : New(capacity, TRUE)

SpecCapacity == InitCapacity /\ [][Next]_vars

\* the book that OrderBook::new(arena_capacity, ..) returns
NewBook(arena_capacity) ==
    [orders |-> ArenaNewOrders(arena_capacity),
     free |-> ArenaNewFree(arena_capacity),
     order_map |-> <<>>,
     asks |-> <<>>, bids |-> <<>>,
     min_ask |-> None, max_bid |-> None]

\* the book after Limit orders 1, 2 and 3 were placed, in this order, on one
\* side at one price of a new book
RestingBook(side, price, q1, q2, q3) ==
    Limit(Limit(Limit(NewBook(ArenaCapacity), 1, side, q1, price).book,
                2, side, q2, price).book,
          3, side, q3, price).book

\* the book is B and the last call was the Limit that placed order 3;
\* ncmds counts the calls made from here on
RestingIs(B, side, price, q3) ==
    /\ orders = B.orders
    /\ free = B.free
    /\ order_map = B.order_map
    /\ asks = B.asks
    /\ bids = B.bids
    /\ min_ask = B.min_ask
    /\ max_bid = B.max_bid
    /\ last_trade = NoTrade
    /\ traded_volume = 0
    /\ track_stats = FALSE
    /\ cmd = [type |-> "Limit", id |-> 3, side |-> side, qty |-> q3,
              price |-> price]
    /\ event = [type |-> "Placed", id |-> 3]
    /\ ncmds = 0

InitResting ==
    \E side \in Sides, price \in Prices, q1 \in Qtys, q2 \in Qtys, q3 \in Qtys :
        RestingIs(RestingBook(side, price, q1, q2, q3), side, price, q3)

\* valid commands on a book in which three orders queue at one price
SpecResting == InitResting /\ [][Next]_vars

\* the arena used on its own: the arena variables are those of an
\* OrderArena::new(capacity), the others stay as constructed
InitArena == \E capacity \in 0..ArenaCapacity : New(capacity, FALSE)

\* what an arena call leaves: the arena a, the call c and the value v returned
ArenaReturn(a, c, v) ==
    /\ ncmds < MaxCmds
    /\ ncmds' = ncmds + 1
    /\ orders' = a.orders
    /\ free' = a.free
    /\ order_map' = a.order_map
    /\ cmd' = c
    /\ event' = v
    /\ UNCHANGED <<asks, bids, min_ask, max_bid, last_trade, traded_volume,
                   track_stats>>

\* arena.insert(id, price, qty), which returns the handle
ArenaInsertReturn(id, price, qty, ins) ==
    ArenaReturn(ins.arena,
                [type |-> "Insert", id |-> id, price |-> price, qty |-> qty],
                [type |-> "Index", index |-> ins.index])

ArenaInsertStep ==
    \E id \in Ids, price \in Prices, qty \in Qtys :
        ArenaInsertReturn(id, price, qty,
                          ArenaInsert(ArenaOf(Book), id, price, qty))

\* arena.delete(&id), which returns whether a slot was freed
ArenaDeleteStep ==
    \E id \in Ids :
        ArenaReturn(ArenaDelete(ArenaOf(Book), id),
                    [type |-> "Delete", id |-> id],
                    [type |-> "Deleted",
                     freed |-> /\ id \in DOMAIN order_map
                               /\ order_map[id] \in 1..Len(orders)])

NextArena == ArenaInsertStep \/ ArenaDeleteStep

SpecArena == InitArena /\ [][NextArena]_vars

-----------------------------------------------------------------------------
(* Properties.  Every step of Spec is one call of execute: cmd' is the     *)
(* command given, event' the event returned, the unprimed variables the    *)
(* book before the call and the primed ones the book after it.             *)

\* the fills of an event, none for Unfilled, Placed and Canceled
FillsOf(e) == IF IsFill(e) THEN e.fills ELSE <<>>

\* the prices of a side at which a resting order has qty > 0
LivePrices(book, ords) ==
    {p \in DOMAIN book : \E k \in 1..Len(book[p]) : ords[book[p][k]].qty > 0}

\* the prices of a side whose queue is empty
Holes(book) == {p \in DOMAIN book : book[p] = <<>>}

BestAsk == IF LivePrices(asks, orders) = {} THEN None
           ELSE SetMin(LivePrices(asks, orders))

BestBid == IF LivePrices(bids, orders) = {} THEN None
           ELSE SetMax(LivePrices(bids, orders))

\* C1: after every execute of a valid command, max_bid < min_ask whenever
\* both are set: the book is never left crossed or locked.
C1_NeverCrossed ==
    (min_ask # None /\ max_bid # None) => max_bid < min_ask

\* a Limit crossed the book, rested its residue, and both sides are quoted
C1_Witness ==
    /\ cmd.type = "Limit"
    /\ event.type = "PartiallyFilled"
    /\ min_ask # None
    /\ max_bid # None

\* C2: after every execute, min_ask is the lowest price at which an ask with
\* qty > 0 rests, None when there is none, and max_bid the highest such price
\* of the bids; an empty level is never the best price.
C2_TrackersAreBest ==
    /\ min_ask = BestAsk
    /\ max_bid = BestBid
    /\ min_ask \notin Holes(asks)
    /\ max_bid \notin Holes(bids)

\* an emptied level lies below the best ask, after a fill or a cancel
C2_Witness ==
    /\ min_ask # None
    /\ \E p \in Holes(asks) : p < min_ask
    /\ cmd.type \in {"Market", "Cancel"}

\* the side opposite to a command's side, as the book it is matched with
Opposite(side, a, b) == IF side = "Bid" THEN a ELSE b

\* the handles of a side in matching order: best price first (lowest for
\* the asks, highest for the bids), queue order within a price
RECURSIVE PriorityOrder(_, _, _)
PriorityOrder(book, keys, ascending) ==
    IF keys = {} THEN <<>>
    ELSE LET p == IF ascending THEN SetMin(keys) ELSE SetMax(keys)
         IN  book[p] \o PriorityOrder(book, keys \ {p}, ascending)

\* the makers a command of the given side meets, in matching order
Makers(side, a, b) ==
    IF side = "Bid" THEN PriorityOrder(a, DOMAIN a, TRUE)
    ELSE PriorityOrder(b, DOMAIN b, FALSE)

\* the queue of a side at a price, empty when the side has no such key
QueueAt(book, p) == IF p \in DOMAIN book THEN book[p] ELSE <<>>

\* queue q2 keeps the handles of q it still holds in their order, and holds
\* the handles that q did not hold behind them
KeepsOrder(q, q2) ==
    \A i, j \in 1..Len(q2) :
        i < j =>
            /\ Position(q, q2[j]) # 0 => /\ Position(q, q2[i]) # 0
                                         /\ Position(q, q2[i]) < Position(q, q2[j])

\* the total quantity of the orders a sequence of handles names
RECURSIVE TotalQty(_, _)
TotalQty(hs, ords) ==
    IF hs = <<>> THEN 0 ELSE ords[Head(hs)].qty + TotalQty(Tail(hs), ords)

Min(a, b) == IF a <= b THEN a ELSE b

RECURSIVE SumQty(_)
SumQty(fills) == IF fills = <<>> THEN 0 ELSE fills[1].qty + SumQty(Tail(fills))

IsOrder(c) == c.type \in {"Market", "Limit"}

\* C3: price-time priority.  The fills returned for a Market or Limit name
\* the makers best price first (ask prices never decrease for a Bid taker,
\* bid prices never increase for an Ask taker) and, at one price, in the
\* order of their queue; a maker is filled only when every maker before it
\* in that order has no quantity left.  The order of a queue is the order of
\* placement: no command reorders the handles a queue keeps, and a handle
\* that enters a queue enters behind them.
C3_PriceTimePriority ==
    [][/\ \A p \in Prices :
            /\ KeepsOrder(QueueAt(asks, p), QueueAt(asks', p))
            /\ KeepsOrder(QueueAt(bids, p), QueueAt(bids', p))
       /\ IsFill(event') =>
        LET F == event'.fills
            P == Makers(cmd'.side, asks, bids)
        IN  /\ Len(F) <= Len(P)
            /\ \A k \in 1..Len(F) :
                  /\ F[k].order_2 = orders[P[k]].id
                  /\ F[k].price = orders[P[k]].price
                  /\ \A j \in 1..(k - 1) :
                        /\ orders'[P[j]].qty = 0
                        /\ cmd'.side = "Bid" => F[j].price <= F[k].price
                        /\ cmd'.side = "Ask" => F[j].price >= F[k].price
    ]_vars

\* one command filled two makers resting at different prices
C3_Witness ==
    /\ IsFill(event)
    /\ Len(event.fills) = 2
    /\ event.fills[1].price # event.fills[2].price
    /\ event.fills[1].order_2 # event.fills[2].order_2

\* C4: for a Market or Limit of quantity Q, PartiallyFilled has
\* filled_qty < Q and at least one fill, Filled has filled_qty = Q and at
\* least one fill, and Unfilled or Placed is returned only when no maker was
\* filled: no resting order lost quantity.
C4_EventMatchesFills ==
    [][IsOrder(cmd') =>
        /\ event'.type = "PartiallyFilled" =>
              event'.filled_qty < cmd'.qty /\ Len(event'.fills) >= 1
        /\ event'.type = "Filled" =>
              event'.filled_qty = cmd'.qty /\ Len(event'.fills) >= 1
        /\ event'.type \in {"Unfilled", "Placed"} =>
              \A h \in HandlesOf(asks) \cup HandlesOf(bids) :
                  orders'[h].qty = orders[h].qty
        /\ event'.type \in {"PartiallyFilled", "Filled",
                            IF cmd'.type = "Market" THEN "Unfilled" ELSE "Placed"}
    ]_vars

\* a command of quantity 2 was filled for 1 only
C4_Witness ==
    /\ IsOrder(cmd)
    /\ event.type = "PartiallyFilled"
    /\ event.filled_qty = 1
    /\ cmd.qty = 2

\* C5: in a PartiallyFilled or Filled event the quantities of the fills add
\* up to filled_qty, and every fill has qty >= 1.
C5_FillsSumToFilledQty ==
    IsFill(event) =>
        /\ SumQty(event.fills) = event.filled_qty
        /\ \A k \in 1..Len(event.fills) : event.fills[k].qty >= 1

\* an event of two fills, the second a partial fill of its maker
C5_Witness ==
    /\ IsFill(event)
    /\ Len(event.fills) = 2
    /\ ~event.fills[2].total_fill

\* C6: limit price protection.  Every fill of a Limit Bid at P has
\* price <= P and every fill of a Limit Ask at P has price >= P; the bound is
\* inclusive: a live opposite order at exactly P is matched unless the Limit
\* was filled before reaching it, and a Limit that is not filled leaves no
\* live opposite order at P or better; the levels strictly worse than P are
\* not touched.
C6_LimitPriceProtection ==
    [][cmd'.type = "Limit" =>
        LET P == cmd'.price
            F == FillsOf(event')
            opp == Opposite(cmd'.side, asks, bids)
            opp2 == Opposite(cmd'.side, asks', bids')
            Worse(p) == IF cmd'.side = "Bid" THEN p > P ELSE p < P
        IN  /\ \A k \in 1..Len(F) : ~Worse(F[k].price)
            /\ P \in LivePrices(opp, orders) =>
                  \/ event'.type = "Filled"
                  \/ \E k \in 1..Len(F) : F[k].price = P
            /\ event'.type # "Filled" =>
                  \A p \in LivePrices(opp2, orders') : Worse(p)
            /\ \A p \in DOMAIN opp :
                  Worse(p) =>
                      /\ p \in DOMAIN opp2
                      /\ opp2[p] = opp[p]
                      /\ \A k \in 1..Len(opp[p]) :
                            orders'[opp[p][k]] = orders[opp[p][k]]
    ]_vars

\* a Limit was matched at exactly its price, was not filled, and a live
\* opposite order strictly worse than its price is still on the book
C6_Witness ==
    /\ cmd.type = "Limit"
    /\ event.type = "PartiallyFilled"
    /\ \E k \in 1..Len(event.fills) : event.fills[k].price = cmd.price
    /\ IF cmd.side = "Bid" THEN min_ask # None /\ min_ask > cmd.price
       ELSE max_bid # None /\ max_bid < cmd.price

\* C7: limit residue.  A Limit {id, S, Q, P} that is not filled for Q adds
\* exactly one resting order, of that id, price P and quantity Q - filled_qty,
\* at the tail of the queue of side S at P and changes nothing else on side
\* S; a Limit filled for Q leaves side S as it was and no order of that id on
\* either side.
C7_LimitResidue ==
    [][cmd'.type = "Limit" =>
        LET F == IF IsFill(event') THEN event'.filled_qty ELSE 0
            own == IF cmd'.side = "Bid" THEN bids ELSE asks
            own2 == IF cmd'.side = "Bid" THEN bids' ELSE asks'
            Named == {h \in HandlesOf(asks') \cup HandlesOf(bids') :
                         orders'[h].id = cmd'.id}
        IN  IF F < cmd'.qty
            THEN /\ Cardinality(Named) = 1
                 /\ \E h \in Named :
                       /\ h \notin HandlesOf(asks) \cup HandlesOf(bids)
                       /\ own2 = EntryPush(own, cmd'.price, h)
                       /\ orders'[h] = [id |-> cmd'.id, price |-> cmd'.price,
                                        qty |-> cmd'.qty - F]
            ELSE own2 = own /\ Named = {}
    ]_vars

\* a Limit of quantity 2 was filled for 1 and rests for 1 at its price, on a
\* side that holds another order
C7_Witness ==
    /\ cmd.type = "Limit"
    /\ event.type = "PartiallyFilled"
    /\ cmd.qty = 2
    /\ LET own == IF cmd.side = "Bid" THEN bids ELSE asks
       IN  /\ cmd.price \in DOMAIN own
           /\ Len(own[cmd.price]) = 1
           /\ orders[own[cmd.price][1]] =
                  [id |-> cmd.id, price |-> cmd.price, qty |-> 1]
           /\ Cardinality(HandlesOf(own)) = 2

\* C8: market orders never rest.  A Market of side S leaves the queues of
\* side S, the tracker of side S and the arena's id index unchanged, and puts
\* no new handle on the opposite side, whatever its event.
C8_MarketNeverRests ==
    [][cmd'.type = "Market" =>
        /\ cmd'.side = "Bid" => bids' = bids /\ max_bid' = max_bid
        /\ cmd'.side = "Ask" => asks' = asks /\ min_ask' = min_ask
        /\ order_map' = order_map
        /\ HandlesOf(asks') \subseteq HandlesOf(asks)
        /\ HandlesOf(bids') \subseteq HandlesOf(bids)
    ]_vars

\* a Market was filled in part while its own side holds a resting order
C8_Witness ==
    /\ cmd.type = "Market"
    /\ event.type = "PartiallyFilled"
    /\ IF cmd.side = "Bid" THEN max_bid # None ELSE min_ask # None

\* C9: market outcome against liquidity.  With L the total quantity resting
\* on the opposite side before a Market of quantity Q: the event is Unfilled
\* iff L = 0; PartiallyFilled iff 0 < L < Q, then with filled_qty = L and no
\* live order left on the opposite side; Filled iff L >= Q, then with
\* filled_qty = Q.
C9_MarketOutcome ==
    [][cmd'.type = "Market" =>
        LET L == TotalQty(Makers(cmd'.side, asks, bids), orders)
            Q == cmd'.qty
            opp2 == Opposite(cmd'.side, asks', bids')
        IN  /\ event'.type = "Unfilled" <=> L = 0
            /\ event'.type = "PartiallyFilled" <=> (0 < L /\ L < Q)
            /\ event'.type = "PartiallyFilled" =>
                  /\ event'.filled_qty = L
                  /\ LiveHandles(opp2, orders') = {}
            /\ event'.type = "Filled" <=> L >= Q
            /\ event'.type = "Filled" => event'.filled_qty = Q
    ]_vars

\* a Market was filled and live quantity is left on the opposite side
C9_Witness ==
    /\ cmd.type = "Market"
    /\ event.type = "Filled"
    /\ LiveHandles(Opposite(cmd.side, asks, bids), orders) # {}

\* C10: fill record content.  The k-th fill of a command has order_1 the
\* command's id, order_2 the id of the k-th maker in matching order,
\* taker_side the command's side, price the price that maker rested at, and
\* qty the smaller of what the taker still wanted and what the maker held.
C10_FillRecord ==
    [][IsFill(event') =>
        LET F == event'.fills
            P == Makers(cmd'.side, asks, bids)
        IN  \A k \in 1..Len(F) :
                /\ k <= Len(P)
                /\ F[k].order_1 = cmd'.id
                /\ F[k].order_2 = orders[P[k]].id
                /\ F[k].taker_side = cmd'.side
                /\ F[k].price = orders[P[k]].price
                /\ F[k].qty = Min(cmd'.qty - SumQty(SubSeq(F, 1, k - 1)),
                                  orders[P[k]].qty)
    ]_vars

\* a Limit was filled at a price that is not its own, by a maker of another
\* id holding more than the Limit wanted
C10_Witness ==
    /\ cmd.type = "Limit"
    /\ IsFill(event)
    /\ event.fills[1].price # cmd.price
    /\ event.fills[1].order_2 # cmd.id
    /\ ~event.fills[1].total_fill

\* C11: the total_fill flag.  A fill has total_fill true iff it took the
\* whole quantity its maker held, iff the maker has quantity 0 after the
\* command; such a maker is in no queue afterwards, and the maker of a fill
\* with total_fill false still rests, in its queue, with qty >= 1.
C11_TotalFillFlag ==
    [][IsFill(event') =>
        LET F == event'.fills
            P == Makers(cmd'.side, asks, bids)
            opp2 == Opposite(cmd'.side, asks', bids')
        IN  \A k \in 1..Len(F) :
                /\ F[k].total_fill <=> F[k].qty = orders[P[k]].qty
                /\ F[k].total_fill <=> orders'[P[k]].qty = 0
                /\ F[k].total_fill =>
                      P[k] \notin HandlesOf(asks') \cup HandlesOf(bids')
                /\ ~F[k].total_fill =>
                      /\ orders'[P[k]].qty >= 1
                      /\ orders'[P[k]].price \in DOMAIN opp2
                      /\ Position(opp2[orders'[P[k]].price], P[k]) # 0
    ]_vars

\* one command consumed a first maker whole and a second one in part; the
\* first is in no queue and the second rests with what is left
C11_Witness ==
    /\ IsFill(event)
    /\ Len(event.fills) = 2
    /\ event.fills[1].total_fill
    /\ ~event.fills[2].total_fill
    /\ LET opp == Opposite(cmd.side, asks, bids)
       IN  /\ \E h \in HandlesOf(opp) :
                  orders[h].id = event.fills[2].order_2 /\ orders[h].qty >= 1
           /\ \A h \in HandlesOf(opp) : orders[h].id # event.fills[1].order_2

\* C12: Cancel {id} always returns Canceled {id}, and when the id is not
\* known to the book it changes nothing: the side maps, min_ask, max_bid, the
\* arena (slots, free list, id index), traded_volume and last_trade stay as
\* they were.  An id is unknown when the id index does not hold it: the index
\* gains an id only when a Limit of that id rests (never placed otherwise) and
\* loses it when that id is cancelled.
C12_CancelUnknownId ==
    [][/\ cmd'.type = "Cancel" =>
            /\ event' = [type |-> "Canceled", id |-> cmd'.id]
            /\ cmd'.id \notin DOMAIN order_map'
            /\ cmd'.id \notin DOMAIN order_map =>
                  UNCHANGED <<asks, bids, min_ask, max_bid, orders, free,
                              order_map, traded_volume, last_trade>>
       /\ \A id \in (DOMAIN order_map') \ (DOMAIN order_map) :
            /\ cmd'.type = "Limit"
            /\ cmd'.id = id
            /\ event'.type \in {"Placed", "PartiallyFilled"}
    ]_vars

\* a Cancel came back while every slot of the arena is in use by a resting
\* order: the id it named was not in the id index, or its slot would be free
C12_Witness ==
    /\ cmd.type = "Cancel"
    /\ event = [type |-> "Canceled", id |-> cmd.id]
    /\ free = <<>>
    /\ Len(orders) >= 1
    /\ \A h \in 1..Len(orders) :
          h \in LiveHandles(asks, orders) \cup LiveHandles(bids, orders)

\* C13: idempotence of cancel.  From any state, a Cancel returns
\* Canceled {id} and leaves a book that the same Cancel, run again, does not
\* change; a Cancel that repeats the command before it changes nothing:
\* queues, trackers, arena and stats stay as the first Cancel left them.
C13_CancelIdempotent ==
    [][cmd'.type = "Cancel" =>
        /\ event' = [type |-> "Canceled", id |-> cmd'.id]
        /\ Cancel(Book', cmd'.id) = Book'
        /\ cmd = cmd' =>
              /\ event' = event
              /\ UNCHANGED <<asks, bids, min_ask, max_bid, orders, free,
                             order_map, traded_volume, last_trade,
                             track_stats>>
    ]_vars

\* a Cancel has freed the slot of the order it named, its id is no longer in
\* the id index, and orders still rest on the book
C13_Witness ==
    /\ cmd.type = "Cancel"
    /\ ncmds >= 2
    /\ cmd.id \notin DOMAIN order_map
    /\ free # <<>>
    /\ orders[free[Len(free)]].id = cmd.id
    /\ orders[free[Len(free)]].price > 0

\* C14: a cancelled order is never matched.  After Cancel {id} the handle
\* the id had is in no queue, no resting order carries the id and the id is
\* not in the id index; while an id is not in the id index no fill names it
\* as order_2, and it enters the index again only when a Limit of that id
\* rests.
C14_CancelledNeverMatched ==
    [][/\ cmd'.type = "Cancel" =>
            /\ cmd'.id \notin DOMAIN order_map'
            /\ cmd'.id \in DOMAIN order_map =>
                  order_map[cmd'.id] \notin HandlesOf(asks') \cup HandlesOf(bids')
            /\ \A h \in HandlesOf(asks') \cup HandlesOf(bids') :
                  orders'[h].id # cmd'.id
       /\ \A id \in Ids \ DOMAIN order_map :
            /\ \A k \in 1..Len(FillsOf(event')) : event'.fills[k].order_2 # id
            /\ id \in DOMAIN order_map' =>
                  /\ cmd'.type = "Limit"
                  /\ cmd'.id = id
                  /\ \E h \in HandlesOf(IF cmd'.side = "Bid" THEN bids' ELSE asks') :
                        orders'[h].id = id /\ order_map'[id] = h
    ]_vars

\* a Market found nothing to match on a book whose order was cancelled: the
\* slot of the cancelled order is on the free list
C14_Witness ==
    /\ cmd.type = "Market"
    /\ event.type = "Unfilled"
    /\ \E i \in 1..Len(free) :
          /\ orders[free[i]].id \in Ids
          /\ orders[free[i]].id \notin DOMAIN order_map
          /\ orders[free[i]].price \in DOMAIN Opposite(cmd.side, asks, bids)

\* the places <<p, k>> of a side where handle h is held
PlacesOf(book, h) ==
    {x \in UNION {{<<p, k>> : k \in 1..Len(book[p])} : p \in DOMAIN book} :
        book[x[1]][x[2]] = h}

\* C15: when a Limit {id, side, qty, price} returns Placed {id}, the arena
\* lookup of id gives the price and a handle, the slot of that handle holds
\* (id, price, qty), and the handle is held exactly once over all queues of
\* both sides, in the queue of the command's side at the price.
C15_PlacedIsLocatable ==
    (cmd.type = "Limit" /\ event.type = "Placed") =>
        LET got == ArenaGet(ArenaOf(Book), cmd.id)
            own == IF cmd.side = "Bid" THEN bids ELSE asks
        IN  /\ got.some
            /\ got.price = cmd.price
            /\ orders[got.index] =
                  [id |-> cmd.id, price |-> cmd.price, qty |-> cmd.qty]
            /\ Cardinality(PlacesOf(asks, got.index)) +
               Cardinality(PlacesOf(bids, got.index)) = 1
            /\ cmd.price \in DOMAIN own
            /\ Position(own[cmd.price], got.index) # 0

\* a Limit was placed behind an order already resting at its price
C15_Witness ==
    /\ cmd.type = "Limit"
    /\ event.type = "Placed"
    /\ cmd.id \in DOMAIN order_map
    /\ LET own == IF cmd.side = "Bid" THEN bids ELSE asks
       IN  /\ cmd.price \in DOMAIN own
           /\ Len(own[cmd.price]) = 2
           /\ own[cmd.price][2] = order_map[cmd.id]

\* C16: queue/arena index consistency after every command.  Every handle
\* held in a queue is the handle the id index gives for the id of its slot;
\* conversely every id the index holds (none of them has been cancelled, a
\* Cancel removes its id) has its handle in a queue, so that a maker that was
\* filled and drained from its queue has left no mapping behind.
C16_IndexConsistency ==
    /\ \A h \in HandlesOf(asks) \cup HandlesOf(bids) :
          /\ orders[h].id \in DOMAIN order_map
          /\ order_map[orders[h].id] = h
    /\ \A id \in DOMAIN order_map :
          order_map[id] \in HandlesOf(asks) \cup HandlesOf(bids)

\* the filled_qty an event reports, 0 when it is not Filled or PartiallyFilled
FilledQtyOf(e) == IF IsFill(e) THEN e.filled_qty ELSE 0

\* C17: with track_stats on from construction, traded_volume is the sum of
\* the filled_qty of the Filled and PartiallyFilled events returned so far: it
\* is 0 on the new book and every command adds to it exactly the filled_qty
\* of the event it returns (nothing for Unfilled, Placed and Canceled), which
\* is the quantity the resting orders lost in that command.
C17_TradedVolumeIsSum ==
    /\ traded_volume = 0
    /\ [][/\ track_stats'
          /\ traded_volume' = traded_volume + FilledQtyOf(event')
          /\ IsOrder(cmd') =>
                traded_volume' - traded_volume =
                    TotalQty(Makers(cmd'.side, asks, bids), orders)
                    - TotalQty(Makers(cmd'.side, asks, bids), orders')
       ]_vars

\* two filling commands have been added up
C17_Witness ==
    /\ track_stats
    /\ IsFill(event)
    /\ last_trade.set
    /\ traded_volume > event.filled_qty

\* C18: traded_volume and last_trade change only in a command executed with
\* track_stats true that produced a fill: a command executed with track_stats
\* false, and a command that returns Unfilled, Placed or Canceled, leave both
\* as they were, whatever the setting.
C18_StatsFrame ==
    [][/\ ~track_stats => UNCHANGED <<traded_volume, last_trade>>
       /\ event'.type \in {"Unfilled", "Placed", "Canceled"} =>
              UNCHANGED <<traded_volume, last_trade>>
       /\ (traded_volume' # traded_volume \/ last_trade' # last_trade) =>
              /\ track_stats /\ track_stats'
              /\ IsOrder(cmd')
              /\ IsFill(event')
              /\ Len(event'.fills) >= 1
    ]_vars

\* a command produced a fill while tracking was off and the statistics of
\* the new book are untouched
C18_Witness ==
    /\ ~track_stats
    /\ IsOrder(cmd)
    /\ IsFill(event)
    /\ traded_volume = 0
    /\ last_trade = NoTrade

\* the sum over fills of price * qty
RECURSIVE Notional(_)
Notional(fills) ==
    IF fills = <<>> THEN 0
    ELSE fills[1].price * fills[1].qty + Notional(Tail(fills))

\* C19: with track_stats on, after a command that returns Filled or
\* PartiallyFilled, last_trade is Some(t) with t.total_qty = filled_qty,
\* t.last_price and t.last_qty the price and qty of the last fill, and
\* t.avg_price = (sum over fills of price * qty) / filled_qty; it is made of
\* that event alone, and a command without a fill leaves it as it was.
C19_LastTrade ==
    [][IF track_stats /\ IsFill(event')
       THEN LET F == event'.fills
                t == last_trade'
            IN  /\ t.set
                /\ t.total_qty = event'.filled_qty
                /\ t.last_price = F[Len(F)].price
                /\ t.last_qty = F[Len(F)].qty
                /\ t.avg_den > 0
                /\ t.avg_num * event'.filled_qty = t.avg_den * Notional(F)
       ELSE last_trade' = last_trade
    ]_vars

\* the last filling command was filled at two prices and its average price
\* is not a whole number
C19_Witness ==
    /\ track_stats
    /\ IsFill(event)
    /\ Len(event.fills) = 2
    /\ event.fills[1].price # event.fills[2].price
    /\ last_trade.set
    /\ last_trade.avg_den = 2
    /\ last_trade.total_qty = event.filled_qty

\* C20: track_stats(track) sets the flag and changes neither traded_volume
\* nor last_trade; a command adds the filled_qty of its event to
\* traded_volume when it is executed with tracking on and nothing when it is
\* executed with tracking off, so that traded_volume is the sum of filled_qty
\* over the filling commands executed while tracking was on and fills made
\* while it was off are never added later.
C20_ToggleKeepsStats ==
    [][IF cmd'.type = "TrackStats"
       THEN /\ track_stats' = cmd'.track
            /\ UNCHANGED <<traded_volume, last_trade>>
       ELSE /\ track_stats' = track_stats
            /\ traded_volume' =
                  traded_volume + (IF track_stats THEN FilledQtyOf(event') ELSE 0)
    ]_vars

\* tracking was switched off on a book that has recorded a trade, and the
\* trade is still there
C20_Witness ==
    /\ cmd = [type |-> "TrackStats", track |-> FALSE]
    /\ ~track_stats
    /\ traded_volume > 0
    /\ last_trade.set
    /\ last_trade.total_qty = traded_volume

\* the levels a depth may be asked for
Levels == 0..MaxLevels

\* the BookLevels lv of a side are the prices of the side that hold quantity,
\* each once, with the quantity resting there
LevelsMatch(lv, book) ==
    /\ {lv[k].price : k \in 1..Len(lv)} = LivePrices(book, orders)
    /\ \A j, k \in 1..Len(lv) : j # k => lv[j].price # lv[k].price
    /\ \A k \in 1..Len(lv) :
          /\ lv[k].price \notin Holes(book)
          /\ lv[k].qty = TotalQty(book[lv[k].price], orders)

\* the BookDepth D answers a request for levels levels of the current book
DepthMatches(D, levels) ==
    /\ D.levels = levels
    /\ LevelsMatch(D.asks, asks)
    /\ LevelsMatch(D.bids, bids)

C22_DepthOrdering ==
    \A levels \in Levels :
        /\ \A j, k \in 1..Len(Depth(Book, levels).asks) :
              j < k => Depth(Book, levels).asks[j].price
                         < Depth(Book, levels).asks[k].price
        /\ \A j, k \in 1..Len(Depth(Book, levels).bids) :
              j < k => Depth(Book, levels).bids[j].price
                         > Depth(Book, levels).bids[k].price
        /\ Depth(Book, levels).asks # <<>>
              => Depth(Book, levels).asks[1].price = min_ask
        /\ Depth(Book, levels).bids # <<>>
              => Depth(Book, levels).bids[1].price = max_bid

\* C23: depth(levels) is the depth up to the level asked for.  Each of the
\* returned asks and bids holds at most levels entries, also when the side has
\* more than levels prices that hold quantity.
C23_DepthUpToLevels ==
    \A levels \in Levels :
        /\ Len(Depth(Book, levels).asks) <= levels
        /\ Len(Depth(Book, levels).bids) <= levels

\* C24: spread() is Some(min_ask - max_bid) exactly when both min_ask and
\* max_bid are set and None otherwise; in every state reached by valid commands
\* the unsigned subtraction does not underflow and the result is at least 1.
C24_Spread ==
    /\ Spread(Book) # None <=> (min_ask # None /\ max_bid # None)
    /\ Spread(Book) # None =>
          /\ Spread(Book) # Underflow
          /\ Spread(Book) = min_ask - max_bid
          /\ Spread(Book) >= 1

\* a bid and an ask rest one tick apart and the spread is 1
C24_Witness ==
    /\ max_bid # None
    /\ min_ask = max_bid + 1
    /\ LivePrices(asks, orders) # {}
    /\ LivePrices(bids, orders) # {}
    /\ Spread(Book) = 1

\* I1 trackers, I2 uncrossed, I3 index consistency of the handles in the
\* queues and of the mappings of live slots, I4 live ids distinct
BookInvariants ==
    /\ min_ask = BestAsk
    /\ max_bid = BestBid
    /\ (min_ask # None /\ max_bid # None) => max_bid < min_ask
    /\ \A h \in HandlesOf(asks) \cup HandlesOf(bids) :
          /\ h \in 1..Len(orders)
          /\ orders[h].id \in DOMAIN order_map
          /\ order_map[orders[h].id] = h
    /\ \A id \in DOMAIN order_map :
          orders[order_map[id]].qty > 0
             => order_map[id] \in HandlesOf(asks) \cup HandlesOf(bids)
    /\ \A h1, h2 \in LiveHandles(asks, orders) \cup LiveHandles(bids, orders) :
          h1 # h2 => orders[h1].id # orders[h2].id

\* C25: invalid construction does not corrupt the book.  In command sequences
\* that include a Limit whose id is that of a live resting order, or a command
\* with qty = 0, execute returns an event for every command and I1-I5
\* (trackers, uncrossed book, queue/arena index consistency, no two live
\* resting orders with one id, FIFO order) hold after every command.
C25_InvalidKeepsInvariants ==
    [][/\ event'.type \in {"Unfilled", "Placed", "Canceled", "Filled",
                           "PartiallyFilled"}
       /\ BookInvariants'
       /\ \A p \in Prices :
             /\ KeepsOrder(QueueAt(asks, p), QueueAt(asks', p))
             /\ KeepsOrder(QueueAt(bids, p), QueueAt(bids', p))
       /\ (IsFill(event') /\ Makers(cmd'.side, asks, bids) # <<>>) =>
             event'.fills[1].order_2
                = orders[Makers(cmd'.side, asks, bids)[1]].id]_vars

\* the kinds of event _execute returns for a command of the given type
EventKinds(type) ==
    IF type = "Market" THEN {"Unfilled", "PartiallyFilled", "Filled"}
    ELSE IF type = "Limit" THEN {"Placed", "PartiallyFilled", "Filled"}
    ELSE {"Canceled"}

\* every handle the book holds, in a queue, in the id index or on the free
\* list, is the index of an arena slot, and no slot's qty is below 0
ArenaInRange ==
    /\ HandlesOf(asks) \cup HandlesOf(bids) \subseteq 1..Len(orders)
    /\ \A id \in DOMAIN order_map : order_map[id] \in 1..Len(orders)
    /\ \A k \in 1..Len(free) : free[k] \in 1..Len(orders)
    /\ \A h \in 1..Len(orders) : orders[h].qty >= 0

\* C28: the matcher is total.  From every reachable state, for any Market,
\* Limit or Cancel, with any qty and any id, execute returns one event of the
\* command's kind and nothing in it fails: every handle it follows is the
\* index of an arena slot, a Filled or PartiallyFilled event has a last fill
\* to unwrap, and no unsigned subtraction underflows (no maker's qty goes
\* below 0, and filled_qty is within 0..qty, so remaining_qty stays >= 0).
C28_MatcherTotal ==
    [][/\ ArenaInRange
       /\ ArenaInRange'
       /\ event'.type \in EventKinds(cmd'.type)
       /\ event'.id = cmd'.id
       /\ IsFill(event') =>
             /\ event'.fills # <<>>
             /\ event'.filled_qty >= 0
             /\ event'.filled_qty <= cmd'.qty
             /\ \A k \in 1..Len(event'.fills) :
                   /\ event'.fills[k].qty >= 1
                   /\ event'.fills[k].qty <= event'.filled_qty
       /\ last_trade'.set =>
             /\ last_trade'.total_qty >= 1
             /\ last_trade'.avg_den >= 1]_vars

\* a taker has been filled by two live resting orders that carry the same id
C28_Witness ==
    /\ cmd.type = "Market"
    /\ event.type = "Filled"
    /\ Len(event.fills) = 2
    /\ event.fills[1].order_2 = event.fills[2].order_2
    /\ last_trade.set

\* C29: zero-quantity commands are no-ops that return the natural event.  In
\* any reachable state Market{qty: 0} returns Unfilled and Limit{qty: 0}
\* returns Placed, also when the opposite side holds crossing liquidity, and
\* neither changes the queues, the trackers, the arena or the stats.
C29_ZeroQtyNoOp ==
    [][(cmd'.type \in {"Market", "Limit"} /\ cmd'.qty = 0) =>
          /\ cmd'.type = "Market" => event' = [type |-> "Unfilled", id |-> cmd'.id]
          /\ cmd'.type = "Limit" => event' = [type |-> "Placed", id |-> cmd'.id]
          /\ UNCHANGED <<asks, bids, min_ask, max_bid, orders, free, order_map,
                         last_trade, traded_volume, track_stats>>]_vars

\* a Limit ask of qty 0 priced at or below a resting bid has returned Placed,
\* after an earlier command had traded
C29_Witness ==
    /\ cmd.type = "Limit"
    /\ cmd.qty = 0
    /\ cmd.side = "Ask"
    /\ max_bid # None
    /\ cmd.price <= max_bid
    /\ event.type = "Placed"
    /\ last_trade.set

\* a side map with the keys of its empty queues erased
Erase(book) == [p \in DOMAIN book \ Holes(book) |-> book[p]]

\* the book B as an engine that erases a level as soon as its queue empties
\* holds it
Eager(B) == [B EXCEPT !.asks = Erase(B.asks), !.bids = Erase(B.bids)]

\* the book and the event that executing command c on the book B gives
ExecOnMarket(c, r) == [book |-> r.book, event |-> MarketEvent(c.id, r)]
ExecOnLimit(c, r) == [book |-> r.book, event |-> LimitEvent(c.id, r)]
ExecOn(B, c) ==
    IF c.type = "Market" THEN ExecOnMarket(c, Market(B, c.id, c.side, c.qty))
    ELSE IF c.type = "Limit"
         THEN ExecOnLimit(c, Limit(B, c.id, c.side, c.qty, c.price))
         ELSE [book |-> Cancel(B, c.id),
               event |-> [type |-> "Canceled", id |-> c.id]]

\* the eager engine's result r of a command is what this book shows after it
SameObservation(r) ==
    /\ r.event = event'
    /\ Eager(r.book) = Eager(Book')
    /\ r.book.min_ask = min_ask'
    /\ r.book.max_bid = max_bid'
    /\ Spread(Eager(r.book)) = Spread(Book')
    /\ \A levels \in Levels :
          Depth(Eager(r.book), levels) = Depth(Book', levels)

\* C26: holes are unobservable.  A book that erases a price level as soon as
\* its queue empties returns, for every command sequence, the same events and
\* the same min_ask, max_bid, spread and depth after every command as this
\* book, which keeps emptied levels as empty queues: each command executed on
\* the erased form of this book gives this book's event, the erased form of
\* this book's next state, and the same answers to the queries.
C26_HolesUnobservable ==
    [][SameObservation(ExecOn(Eager(Book), cmd'))]_vars

\* a Limit bid walked over an emptied ask level at or below its price and
\* rested
C26_Witness ==
    /\ cmd.type = "Limit"
    /\ cmd.side = "Bid"
    /\ event.type = "Placed"
    /\ \E p \in Holes(asks) : p <= cmd.price
    /\ max_bid = cmd.price
    /\ Eager(Book) # Book

\* the number of live resting orders of a book with the given sides and arena
LiveCount(a, b, ords) ==
    Cardinality(LiveHandles(a, ords) \cup LiveHandles(b, ords))

PartialKeepsHead(f, q, q2) ==
    /\ q2 # <<>>
    /\ Position(q, q2[1]) # 0
    /\ q2 = SubSeq(q, Position(q, q2[1]), Len(q))
    /\ orders[q2[1]].id = f.order_2
    /\ orders'[q2[1]].id = f.order_2
    /\ orders'[q2[1]].price = f.price
    /\ orders'[q2[1]].qty = orders[q2[1]].qty - f.qty
    /\ orders'[q2[1]].qty >= 1

\* a head that is still in the queue after a command is still its head
HeadStays(q, q2) ==
    (q # <<>> /\ Position(q2, q[1]) # 0) => q2[1] = q[1]

\* C30: a partially filled maker keeps its time priority.  After a fill with
\* total_fill = FALSE the maker is the head of its price queue with its
\* quantity reduced by the fill's qty; the head of a queue stays its head,
\* ahead of every order placed at the price later, until it leaves the queue;
\* and the first maker a taker matches at a price is the head of the queue
\* of that price.
C30_PartialFillKeepsPriority ==
    [][/\ \A p \in Prices :
             /\ HeadStays(QueueAt(asks, p), QueueAt(asks', p))
             /\ HeadStays(QueueAt(bids, p), QueueAt(bids', p))
       /\ IsFill(event') =>
             \A k \in 1..Len(event'.fills) :
                /\ ~event'.fills[k].total_fill =>
                      PartialKeepsHead(
                          event'.fills[k],
                          QueueAt(Opposite(cmd'.side, asks, bids),
                                  event'.fills[k].price),
                          QueueAt(Opposite(cmd'.side, asks', bids'),
                                  event'.fills[k].price))
                /\ (k = 1 \/ event'.fills[k - 1].price # event'.fills[k].price) =>
                      event'.fills[k].order_2
                         = orders[Opposite(cmd'.side, asks, bids)
                                      [event'.fills[k].price][1]].id
      ]_vars

\* a maker was filled in part, and stays the head of its queue, with quantity
\* left, in front of an order placed at the price after it
C30_Witness ==
    /\ IsFill(event)
    /\ ~event.fills[1].total_fill
    /\ Len(Opposite(cmd.side, asks, bids)[event.fills[1].price]) = 2
    /\ orders[Opposite(cmd.side, asks, bids)[event.fills[1].price][1]].id
          = event.fills[1].order_2
    /\ orders[Opposite(cmd.side, asks, bids)[event.fills[1].price][1]].qty = 1

\* the side map book2 has every price key of book, and a Limit of command c
\* that rests on this side at a price whose queue was empty adds no key and
\* is alone in that queue
LevelsKept(book, book2, c) ==
    /\ DOMAIN book \subseteq DOMAIN book2
    /\ \A p \in DOMAIN book :
          (book[p] # <<>> /\ \A k \in 1..Len(book[p]) : Position(book2[p], book[p][k]) = 0)
             => book2[p] = <<>>
    /\ (c.type = "Limit" /\ book2 # book /\ c.price \in Holes(book)) =>
          /\ DOMAIN book2 = DOMAIN book
          /\ Len(book2[c.price]) = 1
          /\ orders'[book2[c.price][1]].id = c.id
          /\ \A p \in DOMAIN book \ {c.price} : book2[p] = book[p]

\* C31: price levels are never removed.  Across any command sequence the
\* price keys of the asks map and of the bids map only grow; a level whose
\* last order is filled or cancelled stays in the map as an empty queue, and a
\* later Limit resting at that price reuses that queue.
C31_LevelsNeverRemoved ==
    [][/\ LevelsKept(asks, asks', IF cmd'.type = "Limit" /\ cmd'.side = "Ask"
                                  THEN cmd' ELSE NoCmd)
       /\ LevelsKept(bids, bids', IF cmd'.type = "Limit" /\ cmd'.side = "Bid"
                                  THEN cmd' ELSE NoCmd)]_vars

\* a bid was filled, leaving its level empty, and a later Limit bid rests
\* alone in the queue of that price
C31_Witness ==
    /\ cmd.type = "Limit"
    /\ cmd.side = "Bid"
    /\ event.type = "Placed"
    /\ asks = <<>>
    /\ DOMAIN bids = {cmd.price}
    /\ Len(bids[cmd.price]) = 1
    /\ \E h \in 1..Len(orders) :
          /\ orders[h].qty = 0
          /\ orders[h].price = cmd.price
          /\ orders[h].id \in DOMAIN order_map
          /\ order_map[orders[h].id] = h

\* the slot that the id index of arena a gives for id, none when unmapped
SlotOf(a, id) ==
    IF id \in DOMAIN a.order_map THEN a.orders[a.order_map[id]]
    ELSE [id |-> None, price |-> None, qty |-> None]

\* C32: arena insert/get round trip.  After insert(id, price, qty) returns
\* handle h, get(id) returns (price, h) and slot h holds exactly
\* (id, price, qty), both when the slot is popped from the free list and when
\* the arena grows by appending; the entries of the other ids are unchanged by
\* the insert, and an id becomes known to get only by an insert of that id.
C32_InsertGetRoundTrip ==
    [][/\ cmd'.type = "Insert" =>
          /\ event'.index \in 1..Len(orders')
          /\ ArenaGet(ArenaOf(Book'), cmd'.id)
                = [some |-> TRUE, price |-> cmd'.price, index |-> event'.index]
          /\ orders'[event'.index]
                = [id |-> cmd'.id, price |-> cmd'.price, qty |-> cmd'.qty]
          /\ Len(orders') = IF free = <<>> THEN Len(orders) + 1 ELSE Len(orders)
          /\ \A id \in Ids \ {cmd'.id} :
                /\ ArenaGet(ArenaOf(Book'), id) = ArenaGet(ArenaOf(Book), id)
                /\ SlotOf(ArenaOf(Book'), id) = SlotOf(ArenaOf(Book), id)
       /\ \A id \in Ids :
             (ArenaGet(ArenaOf(Book'), id).some /\ ~ArenaGet(ArenaOf(Book), id).some)
                => (cmd'.type = "Insert" /\ cmd'.id = id)]_vars

\* an insert found the free list empty and appended a slot, while another id
\* is mapped to an earlier slot
C32_Witness ==
    /\ cmd.type = "Insert"
    /\ event.index = Len(orders)
    /\ Len(orders) = 2
    /\ free = <<>>
    /\ Cardinality(DOMAIN order_map) = 2
    /\ orders[1].qty > 0

\* the handles of the ids, in ascending order of id, that the index m maps
RECURSIVE HandlesById(_, _)
HandlesById(m, ids) ==
    IF ids = {} THEN <<>>
    ELSE <<m[SetMin(ids)]>> \o HandlesById(m, ids \ {SetMin(ids)})

\* the handles a book uses: those of the asks and of the bids by price and
\* queue position, then those the id index maps that are in no queue
HandleSeq(B) ==
    PriorityOrder(B.asks, DOMAIN B.asks, TRUE)
    \o PriorityOrder(B.bids, DOMAIN B.bids, TRUE)
    \o HandlesById(B.order_map,
                   {id \in DOMAIN B.order_map :
                       B.order_map[id] \notin HandlesOf(B.asks) \cup HandlesOf(B.bids)})

Renumber(q, hs) == [k \in 1..Len(q) |-> Position(hs, q[k])]

\* the book B with its handles renumbered as their positions in hs, and
\* without the slots it does not use
CanonWith(B, hs) ==
    [orders |-> [k \in 1..Len(hs) |-> B.orders[hs[k]]],
     free |-> <<>>,
     order_map |-> [id \in DOMAIN B.order_map |-> Position(hs, B.order_map[id])],
     asks |-> [p \in DOMAIN B.asks |-> Renumber(B.asks[p], hs)],
     bids |-> [p \in DOMAIN B.bids |-> Renumber(B.bids[p], hs)],
     min_ask |-> B.min_ask,
     max_bid |-> B.max_bid]

\* a book up to its handle numbers and its arena capacity
Canon(B) == CanonWith(B, HandleSeq(B))

\* the result r of a command on the renumbered book is what this book shows
\* after it, and the stats are those the event gives
SameWhateverCapacity(r) ==
    /\ r.event = event'
    /\ Canon(r.book) = Canon(Book')
    /\ r.book.min_ask = min_ask'
    /\ r.book.max_bid = max_bid'
    /\ Spread(r.book) = Spread(Book')
    /\ \A levels \in Levels : Depth(r.book, levels) = Depth(Book', levels)
    /\ traded_volume' = traded_volume + FilledQtyOf(r.event)
    /\ last_trade' = IF IsFill(r.event)
                     THEN TradeOf(r.event.filled_qty, r.event.fills)
                     ELSE last_trade

\* C33: capacity independence.  Books constructed with different
\* arena_capacity values, 0 included, return for every command sequence the
\* same events and the same min_ask, max_bid, spread, depth and stats after
\* every command; only the handle numbers differ: whatever the capacity, the
\* new book is the same up to handle numbers, and each command gives the event
\* and the next book, up to handle numbers, that it gives on the renumbered
\* book, which does not depend on the capacity.
C33_CapacityIndependence ==
    /\ Canon(Book) = [orders |-> <<>>, free |-> <<>>, order_map |-> <<>>,
                      asks |-> <<>>, bids |-> <<>>,
                      min_ask |-> None, max_bid |-> None]
    /\ traded_volume = 0
    /\ last_trade = NoTrade
    /\ [][SameWhateverCapacity(ExecOn(Canon(Book), cmd'))]_vars

\* a command was filled in a book constructed with more than one slot: the
\* maker, still resting, has another handle than in the renumbered book, and
\* a slot is still free
C33_Witness ==
    /\ IsFill(event)
    /\ free # <<>>
    /\ Canon(Book) # Book
    /\ \E h \in HandlesOf(asks) \cup HandlesOf(bids) :
          /\ h # Position(HandleSeq(Book), h)
          /\ orders[h].id = event.fills[1].order_2

\* the total quantity resting on a side
SideQty(book, ords) == TotalQty(PriorityOrder(book, DOMAIN book, TRUE), ords)

\* the handles of the resting orders that the fills F name as makers
NamedIn(F, hs) == {h \in hs : \E k \in 1..Len(F) : F[k].order_2 = orders[h].id}

\* quantity is conserved by a command of quantity qty with fills F and
\* filled_qty filled, between the opposite side opp, opp2 and the own side
\* own, own2 before and after it
Conserved(qty, F, filled, opp, opp2, own, own2) ==
    /\ SideQty(opp2, orders') = SideQty(opp, orders) - filled
    /\ \A k \in 1..Len(F) :
          \E h \in HandlesOf(opp) :
             /\ orders[h].id = F[k].order_2
             /\ orders'[h].qty = orders[h].qty - F[k].qty
    /\ \A h \in (HandlesOf(opp) \cup HandlesOf(own)) \ NamedIn(F, HandlesOf(opp)) :
          /\ orders'[h].qty = orders[h].qty
          /\ h \in HandlesOf(opp2) \cup HandlesOf(own2)
    /\ SideQty(own2, orders') = SideQty(own, orders) + qty

\* C34: conservation of quantity.  For every Market or Limit that returns
\* filled_qty F (0 when Unfilled or Placed), the total quantity resting on the
\* opposite side decreases by exactly F, each maker named in a fill loses
\* exactly that fill's qty, every resting order named in no fill keeps its
\* quantity, and the total resting on the own side increases by qty - F for a
\* Limit and by nothing for a Market.
C34_Conservation ==
    [][IsOrder(cmd') =>
          Conserved(IF cmd'.type = "Limit"
                    THEN cmd'.qty - FilledQtyOf(event') ELSE 0,
                    FillsOf(event'), FilledQtyOf(event'),
                    Opposite(cmd'.side, asks, bids),
                    Opposite(cmd'.side, asks', bids'),
                    Opposite(cmd'.side, bids, asks),
                    Opposite(cmd'.side, bids', asks'))]_vars

\* a Limit filled one maker, rested its residue, and left another maker of
\* the opposite side untouched
C34_Witness ==
    /\ cmd.type = "Limit"
    /\ event.type = "PartiallyFilled"
    /\ Len(event.fills) = 1
    /\ SideQty(Opposite(cmd.side, asks, bids), orders) >= 1
    /\ SideQty(Opposite(cmd.side, bids, asks), orders)
          = cmd.qty - event.filled_qty

\* every handle in the queues of a side names a slot with qty > 0
NoDeadEntries(book) ==
    \A p \in DOMAIN book :
        \A k \in 1..Len(book[p]) :
            /\ book[p][k] \in 1..Len(orders)
            /\ orders[book[p][k]].qty > 0

\* C35: no dead entries in queues.  In every state reached by valid commands
\* every handle held in a price queue names an arena slot with qty > 0, so a
\* queue is non-empty exactly when it holds live quantity, and process_queue
\* never meets a maker with available_qty = 0.
C35_NoDeadEntries ==
    /\ NoDeadEntries(asks)
    /\ NoDeadEntries(bids)
    /\ LivePrices(asks, orders) = DOMAIN asks \ Holes(asks)
    /\ LivePrices(bids, orders) = DOMAIN bids \ Holes(bids)
    /\ \A p \in DOMAIN asks : asks[p] # <<>> <=> TotalQty(asks[p], orders) > 0
    /\ \A p \in DOMAIN bids : bids[p] # <<>> <=> TotalQty(bids[p], orders) > 0

\* the head of a queue was filled completely and drained, its slot is left
\* with qty 0, and the order behind it is now the head
C35_Witness ==
    /\ IsFill(event)
    /\ event.fills[1].total_fill
    /\ QueueAt(Opposite(cmd.side, asks, bids), event.fills[1].price) # <<>>
    /\ \E h \in 1..Len(orders) :
          /\ orders[h].qty = 0
          /\ orders[h].id = event.fills[1].order_2
          /\ h \notin HandlesOf(asks) \cup HandlesOf(bids)

\* the queue q without the handles of the orders that carry id
Without(q, id) == SelectSeq(q, LAMBDA h : orders[h].id # id)

\* the side map book2 is book with the orders of id taken out of their queues
OnlyTargetRemoved(book, book2, id) ==
    /\ DOMAIN book2 = DOMAIN book
    /\ \A p \in DOMAIN book : book2[p] = Without(book[p], id)

\* C36: Cancel touches only its target.  Cancel{id} leaves the quantity of
\* every other resting order unchanged and keeps the other handles of every
\* queue in their order, also in the queue that loses the target from its
\* middle.
C36_CancelOnlyTarget ==
    [][cmd'.type = "Cancel" =>
          /\ \A h \in HandlesOf(asks) \cup HandlesOf(bids) :
                orders[h].id # cmd'.id => orders'[h] = orders[h]
          /\ OnlyTargetRemoved(asks, asks', cmd'.id)
          /\ OnlyTargetRemoved(bids, bids', cmd'.id)]_vars

\* order 2 was cancelled from between orders 1 and 3, which still queue in
\* that order with their quantities
C36_Witness ==
    /\ cmd = [type |-> "Cancel", id |-> 2]
    /\ \E p \in DOMAIN asks :
          /\ Len(asks[p]) = 2
          /\ orders[asks[p][1]].id = 1
          /\ orders[asks[p][2]].id = 3
          /\ orders[asks[p][1]].qty = MaxQty
          /\ orders[asks[p][2]].qty = 1
    /\ order_map[1] # order_map[3]
    /\ 2 \notin DOMAIN order_map

\* C37: shape of a fill sequence.  In the fills of one command every fill
\* except possibly the last has total_fill = TRUE, and no maker id is in more
\* than one fill of the command.
C37_FillSequenceShape ==
    [][IsFill(event') =>
          /\ \A k \in 1..(Len(event'.fills) - 1) : event'.fills[k].total_fill
          /\ \A j, k \in 1..Len(event'.fills) :
                j # k => event'.fills[j].order_2 # event'.fills[k].order_2]_vars

\* a command filled one maker completely and then a second maker in part
C37_Witness ==
    /\ IsFill(event)
    /\ Len(event.fills) = 2
    /\ event.fills[1].total_fill
    /\ ~event.fills[2].total_fill
    /\ event.fills[1].order_2 # event.fills[2].order_2

\* the bits of the unsigned word that stands for u64 when the range of the
\* stats arithmetic is examined: prices and quantities up to 2^WordBits - 1
\* are representable
WordBits == 2
WordMax == 2^WordBits - 1

\* C38: stats arithmetic stays within the word.  With track_stats on, for
\* every filling command the sum over the fills of price * qty that avg_price
\* is made of, and the update traded_volume += filled_qty, do not exceed the
\* largest unsigned word, for any prices and quantities that are
\* representable, so enabling stats never makes execute overflow.
C38_StatsWithinWord ==
    [][(/\ track_stats
        /\ IsFill(event')
        /\ MaxPrice <= WordMax
        /\ MaxQty <= WordMax) =>
          /\ \A k \in 1..Len(event'.fills) :
                event'.fills[k].price * event'.fills[k].qty <= WordMax
          /\ SumPriceQty(event'.fills) <= WordMax
          /\ traded_volume + event'.filled_qty <= WordMax]_vars

\* every handle of the queue at price p of a side has arena price p
PricesAgree(book) ==
    \A p \in DOMAIN book :
        \A k \in 1..Len(book[p]) : orders[book[p][k]].price = p

\* C39: queue entries agree with the arena.  In every reachable state each
\* handle held in the queue at price p has arena price p, and each handle
\* occurs at most once over all queues of both sides, so the price that the
\* arena lookup gives cancel identifies the one queue that holds the order.
C39_QueuesAgreeWithArena ==
    /\ PricesAgree(asks)
    /\ PricesAgree(bids)
    /\ \A h \in HandlesOf(asks) \cup HandlesOf(bids) :
          Cardinality(PlacesOf(asks, h)) + Cardinality(PlacesOf(bids, h)) = 1
    /\ \A id \in DOMAIN order_map :
          order_map[id] \in HandlesOf(asks) \cup HandlesOf(bids) =>
             \E k \in 1..MaxId + MaxCmds :
                PlacesOf(asks, order_map[id]) \cup PlacesOf(bids, order_map[id])
                   = {<<ArenaGet(ArenaOf(Book), id).price, k>>}

\* two bids and an ask rest, each in a queue of its arena price, and the
\* price of one of the bids differs from its quantity
C39_Witness ==
    /\ Cardinality(HandlesOf(bids)) = 2
    /\ Cardinality(HandlesOf(asks)) = 1
    /\ \E h \in HandlesOf(bids) : orders[h].price # orders[h].qty
    /\ \A h \in HandlesOf(bids) : \E k \in 1..2 : <<orders[h].price, k>> \in PlacesOf(bids, h)

\* the handles the id index maps and the handles held in the queues
UsedHandles ==
    {order_map[id] : id \in DOMAIN order_map}
       \cup HandlesOf(asks) \cup HandlesOf(bids)

\* the id index is one to one, the free list holds no used handle and no
\* handle twice
ArenaWellFormed ==
    /\ \A id1, id2 \in DOMAIN order_map :
          id1 # id2 => order_map[id1] # order_map[id2]
    /\ \A k \in 1..Len(free) :
          /\ free[k] \in 1..Len(orders)
          /\ free[k] \notin UsedHandles
    /\ \A j, k \in 1..Len(free) : j # k => free[j] # free[k]

\* C40: arena well-formedness after any command sequence.  The id index maps
\* distinct ids to distinct handles, no handle that is mapped in the id index
\* or held in a queue is on the free list, and the free list holds no handle
\* twice, so a slot is never issued again while an order still uses it: the
\* handle a command adds to a queue was not in use before the command.
C40_ArenaWellFormed ==
    /\ ArenaWellFormed
    /\ [][/\ ArenaWellFormed'
          /\ \A h \in (HandlesOf(asks') \cup HandlesOf(bids'))
                         \ (HandlesOf(asks) \cup HandlesOf(bids)) :
                h \notin UsedHandles]_vars

\* a Cancel has put the slot of its order on the free list while another
\* order rests in a slot of its own
C40_Witness ==
    /\ cmd.type = "Cancel"
    /\ Len(free) = 1
    /\ orders[free[1]].id = cmd.id
    /\ orders[free[1]].qty = 0
    /\ cmd.id \notin DOMAIN order_map
    /\ \E id \in DOMAIN order_map :
          /\ order_map[id] \in HandlesOf(asks) \cup HandlesOf(bids)
          /\ orders[order_map[id]].qty > 0

====
